---- MODULE Spec2Model ----
(***************************************************************************)
(* Model of pdf_extractor.extractor.PDFExtractor: span segmentation        *)
(* (_split_span), span collection (_collect_spans), label detection        *)
(* (_find_labels), nearest-value resolution (_find_nearest_value,          *)
(* _distance) and the extract() pipeline; and of the upload handler of     *)
(* pdf_extractor.app with database.save_data, run by concurrent sessions   *)
(* that share the working file temp.pdf.                                   *)
(*                                                                         *)
(* Texts are sequences of one-character strings.  Coordinates are exact    *)
(* rationals <<num, den>> in lowest terms with den > 0: the model computes *)
(* the Python float arithmetic over the reals (no rounding).               *)
(***************************************************************************)
EXTENDS Integers, Sequences, FiniteSets, TLC

VARIABLES INPUT_MAPPING, doc, extracted_data, mapping_copy, labels,
          label_fonts, rest_spans, all_spans, history,
          temp_file, sessions, db

vars == <<INPUT_MAPPING, doc, extracted_data, mapping_copy, labels,
          label_fonts, rest_spans, all_spans, history,
          temp_file, sessions, db>>

(***************************************************************************)
(* Exact rational arithmetic                                               *)
(***************************************************************************)
Abs(n) == IF n < 0 THEN -n ELSE n

RECURSIVE Gcd(_, _)
Gcd(a, b) == IF b = 0 THEN a ELSE Gcd(b, a % b)

\* The rational n/d (d # 0) in lowest terms with a positive denominator.
Rat(n, d) ==
    LET g == Gcd(Abs(n), Abs(d))
        s == IF d < 0 THEN -1 ELSE 1
    IN  <<(s * n) \div g, (s * d) \div g>>

R(n) == <<n, 1>>
RAdd(p, q) == Rat(p[1] * q[2] + q[1] * p[2], p[2] * q[2])
RSub(p, q) == Rat(p[1] * q[2] - q[1] * p[2], p[2] * q[2])
RMul(p, q) == Rat(p[1] * q[1], p[2] * q[2])
RDiv(p, q) == Rat(p[1] * q[2], p[2] * q[1])
RLe(p, q) == p[1] * q[2] <= q[1] * p[2]
RLt(p, q) == p[1] * q[2] < q[1] * p[2]

(***************************************************************************)
(* Characters: str.lower(), str.isalnum() and char_length                  *)
(***************************************************************************)
UpperCase == <<"A", "B", "C", "D", "E", "F", "G", "H", "I", "J", "K", "L", "M",
               "N", "O", "P", "Q", "R", "S", "T", "U", "V", "W", "X", "Y", "Z">>
LowerCase == <<"a", "b", "c", "d", "e", "f", "g", "h", "i", "j", "k", "l", "m",
               "n", "o", "p", "q", "r", "s", "t", "u", "v", "w", "x", "y", "z">>
Digits == {"0", "1", "2", "3", "4", "5", "6", "7", "8", "9"}

Range(s) == {s[i] : i \in DOMAIN s}

lower_char(c) ==
    IF \E i \in DOMAIN UpperCase : UpperCase[i] = c
    THEN LowerCase[CHOOSE i \in DOMAIN UpperCase : UpperCase[i] = c]
    ELSE c

lower(text) == [i \in DOMAIN text |-> lower_char(text[i])]

isalnum(c) == c \in Range(UpperCase) \cup Range(LowerCase) \cup Digits

SelectSeqAlnum(text) == SelectSeq(text, isalnum)

\* "".join(ch for ch in subspan["text"].lower() if ch.isalnum())
normalize(text) == SelectSeqAlnum(lower(text))

char_length(c) == IF c \in {".", " ", "i", "j"} THEN 1 ELSE 2

RECURSIVE part_units(_)
part_units(p) == IF p = <<>> THEN 0 ELSE char_length(Head(p)) + part_units(Tail(p))

RECURSIVE SumSeq(_)
SumSeq(s) == IF s = <<>> THEN 0 ELSE Head(s) + SumSeq(Tail(s))

(***************************************************************************)
(* _split_span                                                             *)
(***************************************************************************)
\* Length of the run of character c starting at position i of text.
RECURSIVE RunLen(_, _, _)
RunLen(text, i, c) ==
    IF i > Len(text) \/ text[i] # c THEN 0 ELSE 1 + RunLen(text, i + 1, c)

\* re.fullmatch(r"(\.{3,}|_{3,})", p)
is_separator(p) ==
    /\ Len(p) >= 3
    /\ \/ \A i \in DOMAIN p : p[i] = "."
       \/ \A i \in DOMAIN p : p[i] = "_"

Flush(cur) == IF cur = <<>> THEN <<>> ELSE <<cur>>

\* [p for p in re.split(r"(\.{3,}|_{3,})", text) if p]: the maximal runs of
\* three or more '.' or '_' and the non-empty pieces between them, in order.
RECURSIVE clean_parts_from(_, _, _, _)
clean_parts_from(text, i, cur, acc) ==
    IF i > Len(text) THEN acc \o Flush(cur)
    ELSE LET c == text[i]
             r == RunLen(text, i, c)
         IN  IF c \in {".", "_"} /\ r >= 3
             THEN clean_parts_from(text, i + r, <<>>,
                      acc \o Flush(cur) \o <<SubSeq(text, i, i + r - 1)>>)
             ELSE clean_parts_from(text, i + 1, Append(cur, c), acc)

clean_parts(text) == clean_parts_from(text, 1, <<>>, <<>>)

\* Variant: every part gets the width of one unit.
part_width_one(w, unit) == unit

\* The x-extent a part gets: its units times the width of one unit.
part_width(w, unit) == RMul(R(w), unit)

\* Variant: the cursor moves only past the parts that are emitted.
RECURSIVE split_loop_kept_only(_, _, _, _, _)
split_loop_kept_only(span, parts, k, unit, cursor) ==
    IF k > Len(parts) THEN <<>>
    ELSE LET p == parts[k]
             width == RMul(R(part_units(p)), unit)
         IN  IF ~is_separator(p)
             THEN <<[text |-> p, font |-> span.font, size |-> span.size,
                     bbox |-> <<cursor, span.bbox[2], RAdd(cursor, width),
                                span.bbox[4]>>,
                     page |-> span.page]>>
                  \o split_loop_kept_only(span, parts, k + 1, unit, RAdd(cursor, width))
             ELSE split_loop_kept_only(span, parts, k + 1, unit, cursor)

\* The loop of _split_span from part k on, with the cursor at `cursor`.
RECURSIVE split_loop(_, _, _, _, _)
split_loop(span, parts, k, unit, cursor) ==
    IF k > Len(parts) THEN <<>>
    ELSE LET p == parts[k]
             width == part_width(part_units(p), unit)
             rest == split_loop(span, parts, k + 1, unit, RAdd(cursor, width))
         IN  IF ~is_separator(p)
             THEN <<[text |-> p, font |-> span.font, size |-> span.size,
                     bbox |-> <<cursor, span.bbox[2], RAdd(cursor, width),
                                span.bbox[4]>>,
                     page |-> span.page]>> \o rest
             ELSE rest

\* Variant: a box of zero width is treated like a malformed one.
split_span_skip_degenerate(span) ==
    IF Len(span.bbox) # 4 \/ span.bbox[1] = span.bbox[3] THEN <<>>
    ELSE LET parts == clean_parts(span.text)
             total_units == SumSeq([k \in DOMAIN parts |-> part_units(parts[k])])
             unit == IF total_units # 0
                     THEN RDiv(RSub(span.bbox[3], span.bbox[1]), R(total_units))
                     ELSE R(0)
         IN  split_loop(span, parts, 1, unit, span.bbox[1])

\* _split_span(span).  Unpacking a bbox that is not a 4-tuple raises inside the
\* try block, and the except clause returns [].
split_span(span) ==
    IF Len(span.bbox) # 4 THEN <<>>
    ELSE LET parts == clean_parts(span.text)
             units == [k \in DOMAIN parts |-> part_units(parts[k])]
             total_units == SumSeq(units)
             total_width == RSub(span.bbox[3], span.bbox[1])
             unit == IF total_units # 0 THEN RDiv(total_width, R(total_units))
                     ELSE R(0)
         IN  split_loop(span, parts, 1, unit, span.bbox[1])

(***************************************************************************)
(* _collect_spans                                                          *)
(***************************************************************************)
RECURSIVE Flatten(_)
Flatten(ss) == IF ss = <<>> THEN <<>> ELSE Head(ss) \o Flatten(Tail(ss))

\* The raw spans of a block in line order, then span order within the line.
block_raw_spans(b) == Flatten(b.lines)

\* span_data: the raw span with the 1-based page number added.
span_data(span, page_num) ==
    [text |-> span.text, font |-> span.font, size |-> span.size,
     bbox |-> span.bbox, page |-> page_num]

\* block_spans of one text block: the sub-spans of its non-empty raw spans.
RECURSIVE block_spans_of(_, _)
block_spans_of(raws, page_num) ==
    IF raws = <<>> THEN <<>>
    ELSE (IF Head(raws).text = <<>> THEN <<>>
          ELSE split_span(span_data(Head(raws), page_num)))
         \o block_spans_of(Tail(raws), page_num)

RECURSIVE page_blocks(_, _)
page_blocks(blocks, page_num) ==
    IF blocks = <<>> THEN <<>>
    ELSE LET b == Head(blocks)
             bs == block_spans_of(block_raw_spans(b), page_num)
         IN  (IF b.type # 0 \/ bs = <<>> THEN <<>> ELSE <<bs>>)
             \o page_blocks(Tail(blocks), page_num)

\* Variant: the pages are visited last to first.
RECURSIVE collect_pages_backwards(_, _)
collect_pages_backwards(d, page_num) ==
    IF page_num > Len(d) THEN <<>>
    ELSE collect_pages_backwards(d, page_num + 1) \o page_blocks(d[page_num], page_num)

RECURSIVE collect_pages(_, _)
collect_pages(d, page_num) ==
    IF page_num > Len(d) THEN <<>>
    ELSE page_blocks(d[page_num], page_num) \o collect_pages(d, page_num + 1)

\* _collect_spans(): the list of non-empty blocks of sub-spans; [] when the
\* document is empty or the provider raises while pages are read.
collect_spans(d, provider_ok) ==
    IF d = <<>> \/ ~provider_ok THEN <<>> ELSE collect_pages(d, 1)

(***************************************************************************)
(* _find_labels                                                            *)
(***************************************************************************)
\* alias.lower() == normalized span text
alias_matches(alias, text) == lower(alias) = normalize(text)

entry_matches(entry, text) ==
    \E a \in DOMAIN entry.aliases : alias_matches(entry.aliases[a], text)

\* Index in the active mapping of the first key (dict order) one of whose
\* aliases matches the text; 0 when none does.
match_index(mapping, text) ==
    IF \E i \in DOMAIN mapping : entry_matches(mapping[i], text)
    THEN CHOOSE i \in DOMAIN mapping :
            /\ entry_matches(mapping[i], text)
            /\ \A j \in 1..(i - 1) : ~entry_matches(mapping[j], text)
    ELSE 0

\* Variant: the matched key stays in the active mapping.
pop_key_kept(mapping, i) == mapping

\* self.mapping_copy.pop(key, None)
pop_key(mapping, i) == SubSeq(mapping, 1, i - 1) \o SubSeq(mapping, i + 1, Len(mapping))

tag_label(subspan, key) ==
    [text |-> subspan.text, font |-> subspan.font, size |-> subspan.size,
     bbox |-> subspan.bbox, page |-> subspan.page, label_for |-> key]

\* One sub-span of a block: st carries mapping_copy, labels, label_fonts,
\* rest_spans and the block_has_label flag; label_at records, for each label
\* found, its position <<block, span>> in all_spans.
label_step(st, subspan, pos) ==
    LET i == match_index(st.mapping_copy, subspan.text)
    IN  IF i = 0 THEN st
        ELSE [mapping_copy |-> pop_key(st.mapping_copy, i),
              labels |-> Append(st.labels, tag_label(subspan, st.mapping_copy[i].key)),
              label_fonts |-> Append(st.label_fonts, subspan.font),
              rest_spans |-> st.rest_spans,
              block_has_label |-> TRUE,
              label_at |-> Append(st.label_at, pos)]

\* for subspan in block_spans, from span s on
RECURSIVE label_block(_, _, _, _)
label_block(st, spans, b, s) ==
    IF s > Len(spans) THEN st
    ELSE label_block(label_step(st, spans[s], <<b, s>>), spans, b, s + 1)

\* Variant: every block is added to the pool, labelled or not.
close_block_always(st, block_spans) ==
    [st EXCEPT !.rest_spans = st.rest_spans \o block_spans]

\* if not block_has_label: self.rest_spans.extend(block_spans)
close_block(st, block_spans) ==
    IF st.block_has_label THEN st
    ELSE [st EXCEPT !.rest_spans = st.rest_spans \o block_spans]

\* for block_spans in all_spans, from block b on
RECURSIVE label_blocks(_, _, _)
label_blocks(st, blocks, b) ==
    IF b > Len(blocks) THEN st
    ELSE label_blocks(
            close_block(label_block([st EXCEPT !.block_has_label = FALSE],
                                    blocks[b], b, 1),
                        blocks[b]),
            blocks, b + 1)

\* _find_labels(all_spans) from the object's current fields.
find_labels(mc, ls, lf, rs, blocks) ==
    label_blocks([mapping_copy |-> mc, labels |-> ls, label_fonts |-> lf,
                  rest_spans |-> rs, block_has_label |-> FALSE,
                  label_at |-> <<>>], blocks, 1)

(***************************************************************************)
(* _distance and _find_nearest_value                                       *)
(***************************************************************************)
\* (y0 + y1) / 2
center_y(bbox) == RDiv(RAdd(bbox[2], bbox[4]), R(2))

\* The square of _distance(label, span); the code takes its square root, which
\* orders candidates the same way.
distance_sq(label, span) ==
    LET dx == RSub(label.bbox[1], span.bbox[1])
        dy == RSub(center_y(label.bbox), center_y(span.bbox))
    IN  RAdd(RMul(dx, dx), RMul(dy, dy))

\* 0.6
BandFactor == <<3, 5>>

in_band(label, s) ==
    LET label_height == RSub(label.bbox[4], label.bbox[2])
        label_center_y == center_y(label.bbox)
        y_min == RSub(label_center_y, RMul(BandFactor, label_height))
        y_max == RAdd(label_center_y, RMul(BandFactor, label_height))
    IN  RLe(y_min, center_y(s.bbox)) /\ RLe(center_y(s.bbox), y_max)

\* Variant: the font test is left out of the filter.
is_candidate_any_font(label, s) ==
    /\ s.page = label.page
    /\ in_band(label, s)

is_candidate(label, s) ==
    /\ s.font # label.font
    /\ s.page = label.page
    /\ in_band(label, s)

candidates_of(label, rs) == SelectSeq(rs, LAMBDA s : is_candidate(label, s))

\* Variant: among candidates at the minimal distance the last one is taken.
nearest_of_last(label, cands) ==
    cands[CHOOSE i \in DOMAIN cands :
            /\ \A j \in DOMAIN cands :
                  RLe(distance_sq(label, cands[i]), distance_sq(label, cands[j]))
            /\ \A j \in (i + 1)..Len(cands) :
                  RLt(distance_sq(label, cands[i]), distance_sq(label, cands[j]))]

\* scored[0][1] of the stable sort by distance: the first candidate, in list
\* order, whose distance is minimal.
nearest_of(label, cands) ==
    cands[CHOOSE i \in DOMAIN cands :
            /\ \A j \in DOMAIN cands :
                  RLe(distance_sq(label, cands[i]), distance_sq(label, cands[j]))
            /\ \A j \in 1..(i - 1) :
                  RLt(distance_sq(label, cands[i]), distance_sq(label, cands[j]))]

\* Variant: the value is stored under the literal "label_for".
target_key_literal(label) == "label_for"

\* The key _find_nearest_value writes.
target_key(label) == label.label_for

\* _find_nearest_value(label): the result dictionary afterwards.
find_nearest_value(ed, label, rs) ==
    LET cands == candidates_of(label, rs)
    IN  IF cands = <<>> THEN ed
        ELSE IF target_key(label) # ""
             THEN [k \in DOMAIN ed \cup {target_key(label)} |->
                      IF k = target_key(label) THEN nearest_of(label, cands).text
                      ELSE ed[k]]
             ELSE ed

\* for label in self.labels: self._find_nearest_value(label), the first n labels
RECURSIVE resolve_labels(_, _, _, _)
resolve_labels(ed, ls, n, rs) ==
    IF n = 0 THEN ed
    ELSE find_nearest_value(resolve_labels(ed, ls, n - 1, rs), ls[n], rs)

(***************************************************************************)
(* Construction and extract()                                              *)
(***************************************************************************)
None == <<"None">>

Keys(mapping) == {mapping[i].key : i \in DOMAIN mapping}

\* {key: None for key in INPUT_MAPPING}
all_none(mapping) == [k \in Keys(mapping) |-> None]

\* The try body of extract() run on the object's current fields.
pipeline(provider_ok) ==
    LET spans == collect_spans(doc, provider_ok)
        st == find_labels(mapping_copy, labels, label_fonts, rest_spans, spans)
    IN  [all_spans |-> spans, st |-> st,
         extracted_data |-> resolve_labels(extracted_data, st.labels,
                                           Len(st.labels), st.rest_spans)]

\* What one call of extract() leaves in the object and hands back.
call_record(r, ret, how) ==
    [returned |-> ret, outcome |-> how, labels |-> r.st.labels,
     rest_spans |-> r.st.rest_spans, label_at |-> r.st.label_at]

finish(r, ret, how) ==
    /\ all_spans' = r.all_spans
    /\ mapping_copy' = r.st.mapping_copy
    /\ labels' = r.st.labels
    /\ label_fonts' = r.st.label_fonts
    /\ rest_spans' = r.st.rest_spans
    /\ extracted_data' = r.extracted_data
    /\ history' = Append(history, call_record(r, ret, how))
    /\ UNCHANGED <<INPUT_MAPPING, doc, temp_file, sessions, db>>

(***************************************************************************)
(* Bounds and input domains                                                *)
(***************************************************************************)
MaxCalls == 2
MaxBlocks == 2

\* extract(): the provider delivers the pages and the call returns
\* self.extracted_data.
Extract ==
    /\ Len(history) < MaxCalls
    /\ LET r == pipeline(TRUE) IN finish(r, r.extracted_data, "ok")

\* extract() when the provider raises inside _collect_spans: the helper logs,
\* returns [] and the pipeline goes on with no spans.
ExtractProviderFailure ==
    /\ Len(history) < MaxCalls
    /\ LET r == pipeline(FALSE) IN finish(r, r.extracted_data, "provider_failed")

\* extract() when the final logging statement of the try body raises: the
\* except clause returns a fresh all-None dictionary.
ExtractFallback ==
    /\ Len(history) < MaxCalls
    /\ LET r == pipeline(TRUE) IN finish(r, all_none(INPUT_MAPPING), "fallback")

\* The content of temp.pdf: no such file, an empty file, the bytes of a
\* readable PDF with the given pages, or bytes fitz cannot open.
AbsentFile == [kind |-> "absent", pages |-> <<>>]
EmptyFile == [kind |-> "empty", pages |-> <<>>]
PdfFile(pages) == [kind |-> "pdf", pages |-> pages]
GarbledFile == [kind |-> "garbled", pages |-> <<>>]

\* The extractor used on its own: no upload session, no working file.
NoUpload == temp_file = AbsentFile /\ sessions = <<>> /\ db = <<>>

\* The fields of a new PDFExtractor.
Object(mapping, d) ==
    /\ INPUT_MAPPING = mapping
    /\ doc = d
    /\ extracted_data = all_none(mapping)
    /\ mapping_copy = mapping
    /\ labels = <<>>
    /\ label_fonts = <<>>
    /\ rest_spans = <<>>
    /\ all_spans = <<>>
    /\ history = <<>>

\* PDFExtractor.__init__ for the chosen configuration and document.
Constructed(mapping, d) == Object(mapping, d) /\ NoUpload

RawSpan(text, font, x0, y0, x1, y1) ==
    [text |-> text, font |-> font, size |-> 10,
     bbox |-> <<R(x0), R(y0), R(x1), R(y1)>>]

TextBlock(lines) == [type |-> 0, lines |-> lines]

TxName == <<"N", "a", "m", "e", ":">>
TxNameLow == <<"n", "a", "m", "e">>
TxJohn == <<"J", "o", "h", "n">>
TxBob == <<"B", "o", "b">>
TxAcctFill == <<"A", "c", "c", "t", ".", ".", ".", "7">>

\* A label alone in its block.
BLabel == TextBlock(<<<<RawSpan(TxName, "A", 0, 0, 10, 10)>>>>)
\* A label and a block-mate in another font on the same line.
BLabelMate == TextBlock(<<<<RawSpan(TxNameLow, "A", 0, 0, 10, 10),
                            RawSpan(TxBob, "B", 12, 0, 20, 10)>>>>)
\* A value in another font beside the label.
BValue == TextBlock(<<<<RawSpan(TxJohn, "B", 15, 1, 40, 9)>>>>)
\* A label and its value in one raw span, separated by a filler run.
BAcctFill == TextBlock(<<<<RawSpan(TxAcctFill, "A", 0, 2, 26, 12)>>>>)
\* An image block whose span would match a label.
BImage == [type |-> 1, lines |-> <<<<RawSpan(TxName, "A", 0, 0, 10, 10)>>>>]
\* An empty span, a span whose bbox is not a 4-tuple, and a zero-width span.
BOdd == TextBlock(<<<<RawSpan(<<>>, "A", 0, 0, 10, 10)>>,
                    <<[text |-> TxName, font |-> "A", size |-> 10,
                       bbox |-> <<R(0), R(0), R(10)>>]>>,
                    <<RawSpan(TxNameLow, "C", 5, 0, 5, 10)>>>>)

BlockPool == {BLabel, BLabelMate, BValue, BAcctFill, BImage, BOdd}

\* A two-page document: the first c blocks of bs on page 1, the rest on page 2.
StructDoc(bs, c) == <<SubSeq(bs, 1, c), SubSeq(bs, c + 1, Len(bs))>>

Entry(key, aliases) == [key |-> key, aliases |-> aliases]

\* Alias tables: distinct aliases; two keys sharing an alias once lowercased;
\* an alias written with its punctuation, as the label is printed.
TableDistinct ==
    <<Entry("customer_name", <<<<"f", "u", "l", "l">>, TxNameLow>>),
      Entry("account_number", <<<<"a", "c", "c", "t">>>>)>>
TableShared ==
    <<Entry("customer_name", <<<<"N", "a", "m", "e">>>>),
      Entry("branch_name", <<TxNameLow>>),
      Entry("account_number", <<<<"a", "c", "c", "t">>>>)>>

TablePunct ==
    <<Entry("customer_name", <<TxName>>),
      Entry("account_number", <<<<"a", "c", "c", "t">>>>)>>

AliasTables == {TableDistinct, TableShared, TablePunct}

\* Any alias table, any two-page document of up to MaxBlocks pool blocks.
Init ==
    \E mapping \in AliasTables, n \in 0..MaxBlocks :
        \E bs \in [1..n -> BlockPool], c \in 0..n :
            Constructed(mapping, StructDoc(bs, c))

Next == Extract \/ ExtractProviderFailure \/ ExtractFallback

Spec == Init /\ [][Next]_vars

(***************************************************************************)
(* Properties                                                              *)
(***************************************************************************)
IsChar(c) == c \in Range(UpperCase) \cup Range(LowerCase) \cup Digits
                   \cup {".", "_", ":", " "}
IsValue(v) == v = None \/ (v # <<>> /\ \A i \in DOMAIN v : IsChar(v[i]))

OkCalls == {i \in DOMAIN history : history[i].outcome = "ok"}
\* Calls in which _find_labels saw the document's spans.
ScannedCalls == {i \in DOMAIN history : history[i].outcome # "provider_failed"}

\* C1: every mapping extract() has returned, by the normal path or by the
\* exception fallback, has exactly the configured key set, each key mapped to
\* a value string or to None; so has the object's result dictionary.
C1_ResultKeysComplete ==
    /\ DOMAIN extracted_data = Keys(INPUT_MAPPING)
    /\ \A i \in DOMAIN history :
          /\ DOMAIN history[i].returned = Keys(INPUT_MAPPING)
          /\ \A k \in Keys(INPUT_MAPPING) : IsValue(history[i].returned[k])

\* A normal call that filled some keys and left others absent, followed by a
\* call that went through the fallback.
C1_Witness ==
    /\ Len(history) = 2
    /\ history[1].outcome = "ok"
    /\ \E k \in Keys(INPUT_MAPPING) : history[1].returned[k] # None
    /\ \E k \in Keys(INPUT_MAPPING) : history[1].returned[k] = None
    /\ history[2].outcome = "fallback"
    /\ \A k \in Keys(INPUT_MAPPING) : history[2].returned[k] = None

\* C2: the label list never holds two spans with the same label_for.
C2_OneLabelPerKey ==
    \A i, j \in DOMAIN labels :
        i # j => labels[i].label_for # labels[j].label_for

\* Positions <<block, span>> of all_spans whose text matches an alias of the
\* table entry e.
MatchingAt(e) ==
    {pos \in UNION {{<<b, x>> : x \in DOMAIN all_spans[b]} : b \in DOMAIN all_spans} :
        entry_matches(e, all_spans[pos[1]][pos[2]].text)}

\* Two blocks each hold a span matching the same key, no other key shares the
\* alias, and the scan recorded one label for it.
C2_Witness ==
    /\ OkCalls # {}
    /\ INPUT_MAPPING = TableDistinct
    /\ \E p, q \in MatchingAt(INPUT_MAPPING[1]) : p[1] < q[1]
    /\ Cardinality({i \in DOMAIN labels : labels[i].label_for = INPUT_MAPPING[1].key}) = 1

\* The blocks of all_spans from block b on that are not in `labelled`, joined.
RECURSIVE unlabelled_from(_, _, _)
unlabelled_from(blocks, b, labelled) ==
    IF b > Len(blocks) THEN <<>>
    ELSE (IF b \in labelled THEN <<>> ELSE blocks[b])
         \o unlabelled_from(blocks, b + 1, labelled)

LastCall == history[Len(history)]
LabelledBlocks == {LastCall.label_at[i][1] : i \in DOMAIN LastCall.label_at}
PoolBefore == IF Len(history) = 1 THEN <<>> ELSE history[Len(history) - 1].rest_spans

RawAt(p, b, r) == block_raw_spans(doc[p][b])[r]
SubSpansAt(p, b, r) ==
    IF doc[p][b].type = 0 /\ RawAt(p, b, r).text # <<>>
    THEN split_span(span_data(RawAt(p, b, r), p)) ELSE <<>>
Positions ==
    UNION {UNION {UNION {{<<p, b, r, x>> : x \in DOMAIN SubSpansAt(p, b, r)} :
                     r \in DOMAIN block_raw_spans(doc[p][b])} :
              b \in DOMAIN doc[p]} : p \in DOMAIN doc}
SpanAt(pos) == SubSpansAt(pos[1], pos[2], pos[3])[pos[4]]

\* Page index, then block index, then span index.
Before(x, y) ==
    \/ x[1] < y[1]
    \/ x[1] = y[1] /\ x[2] < y[2]
    \/ x[1] = y[1] /\ x[2] = y[2] /\ x[3] < y[3]
    \/ x[1] = y[1] /\ x[2] = y[2] /\ x[3] = y[3] /\ x[4] < y[4]

MatchesOf(e) == {x \in Positions : entry_matches(e, SpanAt(x).text)}
FirstMatch(e) == CHOOSE x \in MatchesOf(e) : \A y \in MatchesOf(e) : y = x \/ Before(x, y)
LabelsFor(k) == {i \in DOMAIN labels : labels[i].label_for = k}

LoweredAliases(e) == {lower(e.aliases[a]) : a \in DOMAIN e.aliases}
NoSharedAlias ==
    \A i, j \in DOMAIN INPUT_MAPPING :
        i # j => LoweredAliases(INPUT_MAPPING[i]) \cap LoweredAliases(INPUT_MAPPING[j]) = {}

\* C6: when no two keys share an alias, once the document has been scanned the
\* label of key k is the first span in traversal order that matches an alias of
\* k (and stays so in later calls); k has no label only if no span matches.
C6_FirstMatchWins ==
    (NoSharedAlias /\ ScannedCalls # {}) =>
        \A i \in DOMAIN INPUT_MAPPING :
            LET e == INPUT_MAPPING[i]
            IN  IF MatchesOf(e) = {} THEN LabelsFor(e.key) = {}
                ELSE /\ Cardinality(LabelsFor(e.key)) = 1
                     /\ \A n \in LabelsFor(e.key) :
                           labels[n] = tag_label(SpanAt(FirstMatch(e)), e.key)

\* Matching spans on both pages, the later one with a different text; the
\* label is the one from page 1, also after a second call.
C6_Witness ==
    /\ NoSharedAlias /\ Len(history) = 2 /\ OkCalls = {1, 2}
    /\ \E x, y \in MatchesOf(INPUT_MAPPING[1]) :
          /\ x[1] = 1 /\ y[1] = 2
          /\ SpanAt(x).text # SpanAt(y).text
    /\ \E n \in DOMAIN labels :
          labels[n].label_for = INPUT_MAPPING[1].key /\ labels[n].page = 1

\* C7 (as claimed): a second extract() on the same extractor and unchanged
\* document returns the same mapping as the first.
C7_RepeatCallSameMapping ==
    \A i, j \in OkCalls : history[i].returned = history[j].returned

\* Calls during which the span provider failed: _collect_spans caught the
\* error and handed extract() an empty span list.
ProviderFailedCalls ==
    {i \in DOMAIN history : history[i].outcome = "provider_failed"}

\* Clean runs that found nothing: no label was identified and every field
\* of the returned mapping is absent.
CleanEmptyCalls ==
    {j \in OkCalls :
        /\ history[j].labels = <<>>
        /\ \A k \in Keys(INPUT_MAPPING) : history[j].returned[k] = None}

\* C11 (as claimed): a run in which the span provider failed returns 'all
\* fields absent' (on a new extractor), and what extract() hands back to its
\* caller differs from what a clean run that found nothing hands back.
C11_ProviderFailureDistinguished ==
    \A i \in ProviderFailedCalls :
        /\ i = 1 =>
              \A k \in Keys(INPUT_MAPPING) : history[i].returned[k] = None
        /\ \A j \in CleanEmptyCalls :
              history[i].returned # history[j].returned

NormalizedAliases(e) == {normalize(e.aliases[a]) : a \in DOMAIN e.aliases}
NoSharedNormalizedAlias ==
    \A i, j \in DOMAIN INPUT_MAPPING :
        i # j => NormalizedAliases(INPUT_MAPPING[i])
                     \cap NormalizedAliases(INPUT_MAPPING[j]) = {}

\* C12 (as claimed): alias and span text are both normalized (lowercased,
\* non-alphanumerics removed) before they are compared, so once the document
\* has been scanned every key one of whose normalized aliases equals the
\* normalized text of some span has a label (no two keys sharing a normalized
\* alias).
C12_BothSidesNormalized ==
    (NoSharedNormalizedAlias /\ ScannedCalls # {}) =>
        \A i \in DOMAIN INPUT_MAPPING :
            LET e == INPUT_MAPPING[i]
            IN  (\E x \in Positions :
                    normalize(SpanAt(x).text) \in NormalizedAliases(e))
                    => LabelsFor(e.key) # {}

(***************************************************************************)
(* Geometry inputs: one label and candidate values around it               *)
(***************************************************************************)
MaxCands == 2
MaxX == 4

\* The label spans x 2..4 and y 2..7: centre 9/2, height 5, band 3/2 .. 15/2.
GeoLabel == TextBlock(<<<<RawSpan(TxNameLow, "A", 2, 2, 4, 7)>>>>)

DigitSeq == <<"1", "2", "3", "4", "5", "6", "7", "8", "9">>
CandText(i) == <<"v", DigitSeq[i]>>

\* Candidate i: one span of height 1 in its own block; its centre is y0 + 1/2.
Cand(i, font, x0, y0) ==
    TextBlock(<<<<RawSpan(CandText(i), font, x0, y0, x0 + 3, y0 + 1)>>>>)

\* Below the band, on its lower edge, inside, on its upper edge, above it.
CandYs == {0, 1, 4, 7, 8}
NearYs == {0, 1, 4}
Fonts == {"A", "B"}

\* One candidate, on the label's page or on the next one.
FilterDoc(pg, f, x, y) ==
    IF pg = 1 THEN <<<<GeoLabel, Cand(1, f, x, y)>>, <<>>>>
    ELSE <<<<GeoLabel>>, <<Cand(1, f, x, y)>>>>

\* The candidates c[1], c[2], ... on the label's page, the label block last.
NearestDoc(c) ==
    <<[i \in 1..(Len(c) + 1) |->
          IF i = Len(c) + 1 THEN GeoLabel
          ELSE Cand(i, c[i][1], c[i][2], c[i][3])], <<>>>>

InitGeo ==
    \/ \E pg \in {1, 2}, f \in Fonts, x \in 0..MaxX, y \in CandYs :
          Constructed(TableDistinct, FilterDoc(pg, f, x, y))
    \/ \E n \in 0..MaxCands : \E c \in [1..n -> Fonts \X (0..MaxX) \X NearYs] :
          Constructed(TableDistinct, NearestDoc(c))

\* The first extract() on a new extractor.
ExtractOnce == history = <<>> /\ Extract

NextOnce == ExtractOnce

SpecGeo == InitGeo /\ [][NextOnce]_vars

RAbs(p) == <<Abs(p[1]), p[2]>>
MidY(s) == RDiv(RAdd(s.bbox[2], s.bbox[4]), R(2))

\* The three conditions of the candidate filter, as the claim words them.
Qualifies(l, s) ==
    /\ s.page = l.page
    /\ s.font # l.font
    /\ RLe(RAbs(RSub(MidY(s), MidY(l))),
           RMul(<<6, 10>>, RSub(l.bbox[4], l.bbox[2])))

Qualifying(l, pool) == {i \in DOMAIN pool : Qualifies(l, pool[i])}

MidpointDistSq(l, s) ==
    LET dx == RSub(s.bbox[1], l.bbox[1])
        dy == RSub(MidY(s), MidY(l))
    IN  RAdd(RMul(dx, dx), RMul(dy, dy))

\* The qualifying candidate at minimal distance, the earliest in the pool
\* among those at that distance.
Winner(l, pool) ==
    CHOOSE w \in Qualifying(l, pool) : \A j \in Qualifying(l, pool) :
        \/ RLt(MidpointDistSq(l, pool[w]), MidpointDistSq(l, pool[j]))
        \/ MidpointDistSq(l, pool[w]) = MidpointDistSq(l, pool[j]) /\ w <= j

\* C5: for each label with a qualifying candidate, the value under its key is
\* the text of the qualifying candidate nearest to it, ties going to the one
\* met first in the rest-span pool.
C5_NearestWins ==
    \A c \in OkCalls : \A n \in DOMAIN history[c].labels :
        LET l == history[c].labels[n]
            pool == history[c].rest_spans
        IN  Qualifying(l, pool) # {} =>
                history[c].returned[l.label_for] = pool[Winner(l, pool)].text

\* Two qualifying candidates at the same minimal distance, on either side of
\* the label: the one met first is returned.
C5_Witness ==
    /\ OkCalls = {1} /\ Len(labels) = 1
    /\ \E i, j \in Qualifying(labels[1], rest_spans) :
          /\ i < j
          /\ rest_spans[i].bbox[1] # rest_spans[j].bbox[1]
          /\ MidpointDistSq(labels[1], rest_spans[i]) = MidpointDistSq(labels[1], rest_spans[j])
          /\ \A m \in Qualifying(labels[1], rest_spans) :
                RLe(MidpointDistSq(labels[1], rest_spans[i]),
                    MidpointDistSq(labels[1], rest_spans[m]))
          /\ history[1].returned[labels[1].label_for] = rest_spans[i].text

(***************************************************************************)
(* Segmentation inputs: one raw span followed by a fixed value block       *)
(***************************************************************************)
MaxLen == 5
MaxWidth == 3

SplitChars == {"a", "i", ".", "_"}
SplitX0 == 1

\* The raw span under test: a box of width w from SplitX0, or, for w = -1, a
\* bbox with only three components.
SplitRaw(text, w) ==
    IF w < 0
    THEN [text |-> text, font |-> "A", size |-> 10,
          bbox |-> <<R(SplitX0), R(0), R(10)>>]
    ELSE RawSpan(text, "A", SplitX0, 0, SplitX0 + w, 10)

SplitDoc(t, w) == <<<<TextBlock(<<<<SplitRaw(t, w)>>>>), BValue>>>>

SplitTable == <<Entry("customer_name", <<<<"a">>>>)>>

\* Every text of 1..MaxLen characters, in a box of width 0..MaxWidth or with
\* a malformed bbox.
InitSplit ==
    \E n \in 1..MaxLen : \E t \in [1..n -> SplitChars], w \in (-1)..MaxWidth :
        Constructed(SplitTable, SplitDoc(t, w))

SpecSplit == InitSplit /\ [][NextOnce]_vars

\* The raw span under test with its page number, and what _collect_spans got
\* from it: the value block always follows as the last block of all_spans.
TheRaw == span_data(doc[1][1].lines[1][1], 1)
TheValue == span_data(doc[1][2].lines[1][1], 1)
SplitOut == IF Len(all_spans) = 2 THEN all_spans[1] ELSE <<>>
WellFormed == Len(TheRaw.bbox) = 4
RawWidth == RSub(TheRaw.bbox[3], TheRaw.bbox[1])

Weight(c) == IF c \in {".", " ", "i", "j"} THEN 1 ELSE 2
RECURSIVE TextWeight(_)
TextWeight(t) == IF t = <<>> THEN 0 ELSE Weight(Head(t)) + TextWeight(Tail(t))

\* A run of three or more '.' or of three or more '_'.
IsFillerRun(t) ==
    Len(t) >= 3 /\ \E ch \in {".", "_"} : \A i \in DOMAIN t : t[i] = ch
HasFillerRun(t) ==
    \E i \in 1..(Len(t) - 2) : IsFillerRun(SubSeq(t, i, i + 2))

\* The parts of the raw text as <<first, last>> index pairs: maximal filler
\* runs and the maximal stretches between them.
InFiller(t, i) ==
    \E a \in 1..i : \E b \in i..Len(t) : b - a >= 2 /\ IsFillerRun(SubSeq(t, a, b))
SamePart(t, i, j) ==
    /\ InFiller(t, i) = InFiller(t, j)
    /\ InFiller(t, i) => t[i] = t[j]
PartBounds(t) ==
    {<<a, b>> \in (1..Len(t)) \X (1..Len(t)) :
        /\ a <= b
        /\ \A i \in a..b : SamePart(t, a, i)
        /\ a > 1 => ~SamePart(t, a - 1, a)
        /\ b < Len(t) => ~SamePart(t, b, b + 1)}
KeptParts(t) == {pb \in PartBounds(t) : ~InFiller(t, pb[1])}
FillerParts(t) == {pb \in PartBounds(t) : InFiller(t, pb[1])}

\* x0 + (weight of text[lo..hi]) * (x1 - x0) / total weight
Share(t, lo, hi) ==
    RMul(R(TextWeight(SubSeq(t, lo, hi))), RDiv(RawWidth, R(TextWeight(t))))
ExpectedBox(t, pb) ==
    <<RAdd(TheRaw.bbox[1], Share(t, 1, pb[1] - 1)), TheRaw.bbox[2],
      RAdd(TheRaw.bbox[1], Share(t, 1, pb[2])), TheRaw.bbox[4]>>

RECURSIVE SumWidths(_)
SumWidths(out) ==
    IF out = <<>> THEN R(0)
    ELSE RAdd(RSub(Head(out).bbox[3], Head(out).bbox[1]), SumWidths(Tail(out)))

RECURSIVE SumShares(_, _)
SumShares(t, pbs) ==
    IF pbs = {} THEN R(0)
    ELSE LET pb == CHOOSE x \in pbs : TRUE
         IN  RAdd(Share(t, pb[1], pb[2]), SumShares(t, pbs \ {pb}))

\* C8: the emitted sub-spans are the non-filler parts in text order; the k-th
\* one spans from x0 + (weight before it) * W / N to x0 + (weight up to its
\* end) * W / N and keeps y0, y1; sub-boxes do not overlap; emitted widths plus
\* the shares of the filler runs add up to W = x1 - x0.
C8_Tiling ==
    (history # <<>> /\ WellFormed) =>
        LET t == TheRaw.text
            out == SplitOut
        IN  /\ Len(out) = Cardinality(KeptParts(t))
            /\ \A pb \in KeptParts(t) :
                  LET k == Cardinality({q \in KeptParts(t) : q[1] <= pb[1]})
                  IN  /\ out[k].text = SubSeq(t, pb[1], pb[2])
                      /\ out[k].bbox = ExpectedBox(t, pb)
            /\ \A k \in 1..(Len(out) - 1) : RLe(out[k].bbox[3], out[k + 1].bbox[1])
            /\ RAdd(SumWidths(out), SumShares(t, FillerParts(t))) = RawWidth

\* Text, filler run, text in a box of non-zero width: two sub-spans with the
\* filler's share of the width between them.
C8_Witness ==
    /\ history # <<>> /\ WellFormed
    /\ Len(SplitOut) = 2
    /\ RawWidth # R(0)
    /\ RLt(SplitOut[1].bbox[3], SplitOut[2].bbox[1])
    /\ SplitOut[2].bbox[3] = TheRaw.bbox[3]

\* C9: a span without a filler run comes back as exactly one span with the
\* same text, font, size, page and bbox; and every span the segmenter emitted
\* is returned unchanged when segmented again.
C9_IdentityWithoutFiller ==
    (history # <<>> /\ WellFormed) =>
        /\ ~HasFillerRun(TheRaw.text) => SplitOut = <<TheRaw>>
        /\ \A k \in DOMAIN SplitOut : split_span(SplitOut[k]) = <<SplitOut[k]>>

\* A filler-free text of mixed character weights in a box of non-zero width.
C9_Witness ==
    /\ history # <<>> /\ WellFormed
    /\ ~HasFillerRun(TheRaw.text)
    /\ \E i, j \in DOMAIN TheRaw.text :
          Weight(TheRaw.text[i]) # Weight(TheRaw.text[j])
    /\ RawWidth # R(0)
    /\ SplitOut = <<TheRaw>>

\* C10 (as claimed): a zero-width raw span with weighted text contributes no
\* sub-span.
C10_ZeroWidthSkipped ==
    (history # <<>> /\ WellFormed /\ RawWidth = R(0)) => SplitOut = <<>>

\* C10 (amended): a raw span whose bbox is not a 4-tuple contributes nothing
\* and the run goes on with the next block; a zero-width 4-tuple is segmented
\* like any other, each non-filler part getting the box (x0, y0, x0, y1), and
\* such a sub-span can be a label or a candidate.
C10_MalformedSkippedZeroWidthKept ==
    history # <<>> =>
        /\ history[1].outcome = "ok"
        /\ all_spans[Len(all_spans)] = <<TheValue>>
        /\ ~WellFormed => (SplitOut = <<>> /\ labels = <<>>)
        /\ (WellFormed /\ RawWidth = R(0)) =>
              /\ Len(SplitOut) = Cardinality(KeptParts(TheRaw.text))
              /\ \A k \in DOMAIN SplitOut :
                    SplitOut[k].bbox = <<TheRaw.bbox[1], TheRaw.bbox[2],
                                         TheRaw.bbox[1], TheRaw.bbox[4]>>
              /\ (\E k \in DOMAIN SplitOut : SplitOut[k].text = <<"a">>)
                    => \E n \in DOMAIN labels :
                          labels[n].bbox[1] = labels[n].bbox[3]

\* A zero-width span became the label and got the value beside it.
C10_Witness ==
    /\ history # <<>> /\ WellFormed /\ RawWidth = R(0)
    /\ Len(labels) = 1 /\ labels[1].bbox[1] = labels[1].bbox[3]
    /\ history[1].returned["customer_name"] = TxJohn

(***************************************************************************)
(* The upload handler of app.py and database.save_data                     *)
(***************************************************************************)
MaxSessions == 2
Sessions == 1..MaxSessions

\* PDFExtractor("temp.pdf").extract() on a new object: the pipeline over the
\* pages fitz opened; the provider fails when the pages can no longer be read.
extract_fresh(mapping, pages, provider_ok) ==
    LET spans == collect_spans(pages, provider_ok)
        st == find_labels(mapping, <<>>, <<>>, <<>>, spans)
    IN  resolve_labels(all_none(mapping), st.labels, Len(st.labels),
                       st.rest_spans)

\* data.get(column)
get(data, column) == IF column \in DOMAIN data THEN data[column] ELSE None

\* The row save_data inserts into pdf_data.
row_of(data) ==
    <<get(data, "customer_name"), get(data, "branch_name"),
      get(data, "account_number")>>

\* Where the handler goes after a step, given whether the step raised.
app_next_render_anyway(pc, raised) ==
    CASE pc = "start" -> "write"
      [] pc = "write" -> "construct"
      [] pc = "construct" -> IF raised THEN "error" ELSE "extract"
      [] pc = "extract" -> "save"
      [] pc = "save" -> "render"
      [] pc = "render" -> "done"
      [] pc = "error" -> "stopped"

\* The try block of app.py in statement order; an exception leaves it for the
\* except clause (st.error, st.stop).
app_next(pc, raised) ==
    CASE pc = "start" -> "write"
      [] pc = "write" -> "construct"
      [] pc = "construct" -> IF raised THEN "error" ELSE "extract"
      [] pc = "extract" -> "save"
      [] pc = "save" -> IF raised THEN "error" ELSE "render"
      [] pc = "render" -> "done"
      [] pc = "error" -> "stopped"

\* A session whose script has just seen the uploaded file.
Session(upload) ==
    [pc |-> "start", upload |-> upload, opened |-> AbsentFile,
     returned |-> <<>>, saved |-> <<>>, rendered |-> <<>>,
     raised |-> FALSE, events |-> <<>>]

step(s, to) == sessions' = [sessions EXCEPT ![s] = to]

\* open("temp.pdf", "wb"): the shared file is created or truncated.
AppOpenTemp(s) ==
    /\ sessions[s].pc = "start"
    /\ temp_file' = EmptyFile
    /\ step(s, [sessions[s] EXCEPT !.pc = app_next("start", FALSE)])
    /\ UNCHANGED <<INPUT_MAPPING, doc, extracted_data, mapping_copy, labels,
                   label_fonts, rest_spans, all_spans, history, db>>

\* f.write(uploaded_file.read()) and close: the bytes land at offset 0.  If
\* another session has written since this one truncated the file, a tail of
\* the other bytes may survive and the file may be unreadable.
AppWriteTemp(s) ==
    /\ sessions[s].pc = "write"
    /\ temp_file' \in {sessions[s].upload}
                      \cup (IF temp_file = EmptyFile THEN {} ELSE {GarbledFile})
    /\ step(s, [sessions[s] EXCEPT !.pc = app_next("write", FALSE),
                                   !.events = Append(@, "write")])
    /\ UNCHANGED <<INPUT_MAPPING, doc, extracted_data, mapping_copy, labels,
                   label_fonts, rest_spans, all_spans, history, db>>

\* PDFExtractor("temp.pdf"): fitz.open reads whatever temp.pdf holds now and
\* the constructor re-raises when it cannot be opened.
AppConstruct(s) ==
    /\ sessions[s].pc = "construct"
    /\ LET fails == temp_file.kind # "pdf"
       IN  step(s, [sessions[s] EXCEPT !.pc = app_next("construct", fails),
                                       !.opened = IF fails THEN @ ELSE temp_file,
                                       !.raised = fails,
                                       !.events = Append(@, "construct")])
    /\ UNCHANGED <<INPUT_MAPPING, doc, extracted_data, mapping_copy, labels,
                   label_fonts, rest_spans, all_spans, history, temp_file, db>>

\* data = extractor.extract(): never raises.  The pages are read from the
\* open file; if temp.pdf was rewritten meanwhile the read may fail, which
\* _collect_spans turns into an empty span list.
AppExtract(s) ==
    /\ sessions[s].pc = "extract"
    /\ \E provider_ok \in {TRUE} \cup {temp_file = sessions[s].opened} :
          step(s, [sessions[s] EXCEPT
                      !.pc = app_next("extract", FALSE),
                      !.returned = Append(@, extract_fresh(INPUT_MAPPING,
                                              sessions[s].opened.pages,
                                              provider_ok)),
                      !.events = Append(@, "extract")])
    /\ UNCHANGED <<INPUT_MAPPING, doc, extracted_data, mapping_copy, labels,
                   label_fonts, rest_spans, all_spans, history, temp_file, db>>

\* save_data(data): inserts one row, or re-raises the sqlite3 error.
AppSave(s) ==
    /\ sessions[s].pc = "save"
    /\ \E fails \in BOOLEAN :
          LET data == sessions[s].returned[Len(sessions[s].returned)]
          IN  /\ step(s, [sessions[s] EXCEPT !.pc = app_next("save", fails),
                                             !.saved = Append(@, data),
                                             !.raised = fails,
                                             !.events = Append(@, "save")])
              /\ db' = IF fails THEN db ELSE Append(db, row_of(data))
    /\ UNCHANGED <<INPUT_MAPPING, doc, extracted_data, mapping_copy, labels,
                   label_fonts, rest_spans, all_spans, history, temp_file>>

\* st.subheader("Extracted Data"); st.json(data)
AppRender(s) ==
    /\ sessions[s].pc = "render"
    /\ LET data == sessions[s].returned[Len(sessions[s].returned)]
       IN  step(s, [sessions[s] EXCEPT !.pc = app_next("render", FALSE),
                                       !.rendered = Append(@, data),
                                       !.events = Append(@, "render")])
    /\ UNCHANGED <<INPUT_MAPPING, doc, extracted_data, mapping_copy, labels,
                   label_fonts, rest_spans, all_spans, history, temp_file, db>>

\* except Exception: st.error(...); st.stop()
AppError(s) ==
    /\ sessions[s].pc = "error"
    /\ step(s, [sessions[s] EXCEPT !.pc = app_next("error", FALSE),
                                   !.events = Append(@, "error")])
    /\ UNCHANGED <<INPUT_MAPPING, doc, extracted_data, mapping_copy, labels,
                   label_fonts, rest_spans, all_spans, history, temp_file, db>>

\* A value for the label in the label's band, in another font.
BValueBob == TextBlock(<<<<RawSpan(TxBob, "B", 15, 1, 40, 9)>>>>)

\* Uploaded files: two documents with different customer names, a document
\* without any label, and a file that is not a PDF.
Uploads ==
    {PdfFile(<<<<BLabel, BValue>>>>), PdfFile(<<<<BLabel, BValueBob>>>>),
     PdfFile(<<<<BValue>>>>), GarbledFile}

\* Every session has received its upload; temp.pdf does not exist yet.
InitApp ==
    /\ Object(TableDistinct, <<>>)
    /\ temp_file = AbsentFile
    /\ db = <<>>
    /\ sessions \in [Sessions -> {Session(u) : u \in Uploads}]

NextApp ==
    \E s \in Sessions :
        \/ AppOpenTemp(s) \/ AppWriteTemp(s) \/ AppConstruct(s)
        \/ AppExtract(s) \/ AppSave(s) \/ AppRender(s) \/ AppError(s)

SpecApp == InitApp /\ [][NextApp]_vars

(***************************************************************************)
(* Properties of the upload handler                                        *)
(***************************************************************************)
HandlerOrder == <<"write", "construct", "extract", "save", "render">>

IsPrefix(a, b) == Len(a) <= Len(b) /\ a = SubSeq(b, 1, Len(a))
Count(seq, e) == Cardinality({i \in DOMAIN seq : seq[i] = e})

\* The steps after which the handler can be left by an exception: the
\* constructor and save_data.
RaisingSteps == {n \in DOMAIN HandlerOrder : HandlerOrder[n] \in {"construct", "save"}}

\* C13: for every upload the handler's steps so far are an initial part of
\* write temp.pdf, construct, extract, save_data, render, cut short only by an
\* exception of the constructor or of save_data; extract() and save_data are
\* called at most once and, when the handler completes, exactly once each in
\* that order; the mapping given to save_data and the mapping rendered are the
\* mapping extract() returned; nothing is rendered once a step has raised.
C13_UploadHandledInOrder ==
    \A s \in DOMAIN sessions :
        LET x == sessions[s]
        IN  /\ \/ IsPrefix(x.events, HandlerOrder)
               \/ /\ x.raised
                  /\ \E n \in RaisingSteps :
                        x.events = SubSeq(HandlerOrder, 1, n) \o <<"error">>
            /\ Len(x.returned) = Count(x.events, "extract")
            /\ Len(x.saved) = Count(x.events, "save")
            /\ Len(x.rendered) = Count(x.events, "render")
            /\ x.saved # <<>> => x.saved = x.returned
            /\ x.rendered # <<>> => x.rendered = x.returned /\ x.saved = x.returned
            /\ x.raised => x.rendered = <<>>
            /\ x.pc = "done" => x.events = HandlerOrder /\ ~x.raised

\* One upload handled to the end, its extracted name saved and rendered;
\* another stopped after save_data raised, with nothing rendered.
C13_Witness ==
    \E s, t \in DOMAIN sessions :
        /\ sessions[s].pc = "done"
        /\ sessions[s].returned[1]["customer_name"] = TxJohn
        /\ sessions[s].rendered = sessions[s].returned
        /\ \E i \in DOMAIN db : db[i] = row_of(sessions[s].returned[1])
        /\ sessions[t].pc = "stopped" /\ sessions[t].raised
        /\ sessions[t].saved # <<>> /\ sessions[t].rendered = <<>>

\* C14 (as claimed): whatever a session passes to save_data or renders is the
\* extraction result of the file that session uploaded, in every interleaving
\* of two sessions.
C14_OwnDocument ==
    \A s \in DOMAIN sessions :
        LET x == sessions[s]
            own == extract_fresh(INPUT_MAPPING, x.upload.pages, TRUE)
        IN  /\ \A i \in DOMAIN x.saved : x.upload.kind = "pdf" /\ x.saved[i] = own
            /\ \A i \in DOMAIN x.rendered :
                  x.upload.kind = "pdf" /\ x.rendered[i] = own

====
